---- MODULE Spec2Model ----
(***************************************************************************)
(* A model of the simple-chat client: the Prompt edit buffer               *)
(* (src/src/client.rs), the TerminalBuffer cell grid with its diff, and    *)
(* the patch emitter apply_patches (src/src/terminal_buffer.rs).           *)
(*                                                                         *)
(* Rust indices are kept as they are in the source: a Vec<Cell> is a       *)
(* function on 0..len-1, so that y * width + x is the index the code       *)
(* computes.  Vec<char> and Vec<Patch> are sequences; position k of the    *)
(* Rust vector is element k+1 of the sequence.                             *)
(***************************************************************************)
EXTENDS Integers, Sequences, FiniteSets

VARIABLES
    prompt,              \* main's `prompt`: [data, cursor]
    prompt_panicked,     \* Vec::insert panicked (index > len)
    pop,                 \* the last Prompt operation, its argument and the Prompt before it
    screen_buffer,       \* main's `screen_buffer`: [cells, width, height]
    prev_screen_buffer,  \* main's `prev_screen_buffer`
    patches,             \* the Vec<Patch> of the last diff, dropped when a buffer changes
    gop,                 \* the last TerminalBuffer operation, its arguments and the cells before it
    nput,                \* number of put_cell / put_cells calls made so far
    batch,               \* the &[Patch] handed to apply_patches
    out,                 \* the commands apply_patches queued, in order
    emitted,             \* apply_patches has returned
    parsed,              \* what parse_prompt returned for prompt.data
    client,              \* main's `client`: [stream, chat, quit]
    main_pc,             \* where main is: "off", "poll", "render", "Ok", "Err"
    term,                \* the terminal behind stdout: [cells, x, y, fg, bg]
    kev,                 \* the key event of this iteration, with prompt and client before it
    net,                 \* chunks the server sent that wait unread in the socket
    chan,                \* server.rs: the mpsc channel, oldest Message first
    clients,             \* server.rs: the addresses in server's `clients` map
    server_pc,           \* server.rs: the server thread: "off", "recv", "Err"
    conn,                \* server.rs: per address the thread of `client`: [pc, stream, buff]
    sop,                 \* the last Message the server thread processed, and what it wrote
    hop                  \* the last read of a `client` thread, and what it sent

promptVars == <<prompt, prompt_panicked, pop>>
gridVars == <<screen_buffer, prev_screen_buffer, patches, gop, nput>>
emitVars == <<batch, out, emitted>>
parseVars == <<parsed>>
mainVars == <<client, main_pc, term, kev, net>>
serverVars == <<chan, clients, server_pc, conn, sop, hop>>
otherVars == <<parseVars, mainVars, serverVars>>
vars == <<prompt, prompt_panicked, pop, screen_buffer, prev_screen_buffer,
          patches, gop, nput, batch, out, emitted, parsed,
          client, main_pc, term, kev, net,
          chan, clients, server_pc, conn, sop, hop>>

(***************************************************************************)
(* Bounds of the model.                                                    *)
(***************************************************************************)
MaxLen == 3       \* longest Prompt line
MaxW == 2         \* widest grid
MaxH == 2         \* tallest grid
MaxPuts == 2      \* put_cell / put_cells calls in one run
MaxRun == 3       \* longest character run handed to put_cells
MaxBatch == 3     \* longest patch batch handed to apply_patches
MaxParseLen == 4  \* longest line handed to parse_prompt on its own
MaxChat == 3      \* Enter is pressed while the Chat Log has fewer entries
MaxInbox == 1     \* most chunks waiting unread in the socket
MaxCols == 3      \* widest terminal of the frame loop
MaxRows == 2      \* tallest terminal of the frame loop
MaxClients == 3   \* connections the server accepts in one run
MaxChan == 2      \* most Messages waiting in the channel
MaxRead == 2      \* most bytes one read returns

Chars == {"a", "b", "c"}

(***************************************************************************)
(* Prompt (client.rs).  A Prompt value is [data |-> Seq(char), cursor].    *)
(***************************************************************************)
Prompt_default == [data |-> <<>>, cursor |-> 0]

\* Vec::insert(index, ch): everything from index on shifts right.
Vec_insert(v, index, ch) ==
    SubSeq(v, 1, index) \o <<ch>> \o SubSeq(v, index + 1, Len(v))

\* Vec::pop(): removes the last element, nothing on an empty vector.
Vec_pop(v) == IF Len(v) = 0 THEN v ELSE SubSeq(v, 1, Len(v) - 1)

\* insert as a push: the character goes to the end of the line
Prompt_insert_push(p, ch) ==
    [data |-> p.data \o <<ch>>, cursor |-> p.cursor + 1]

Prompt_insert(p, ch) ==
    [data |-> Vec_insert(p.data, p.cursor, ch), cursor |-> p.cursor + 1]

\* backspace whose floor leaves the cursor where it is
Prompt_backspace_keeps_cursor(p) ==
    [data |-> Vec_pop(p.data),
     cursor |-> IF p.cursor > 1 THEN p.cursor - 1 ELSE p.cursor]

Prompt_backspace(p) ==
    [data |-> Vec_pop(p.data),
     cursor |-> IF p.cursor > 1 THEN p.cursor - 1 ELSE 0]

Prompt_clear(p) == [data |-> <<>>, cursor |-> 0]

Prompt_cursor_move_left(p) ==
    [p EXCEPT !.cursor = IF p.cursor > 0 THEN p.cursor - 1 ELSE 0]

Prompt_cursor_move_right(p) ==
    [p EXCEPT !.cursor = IF p.cursor = Len(p.data) THEN p.cursor ELSE p.cursor + 1]

NoChar == " "

NoPop == [op |-> "new", ch |-> NoChar, pre |-> Prompt_default]

\* KeyCode::Char(ch) without CONTROL: prompt.insert(ch).  Vec::insert panics
\* when the index is past the end.
Insert(ch) ==
    /\ ~prompt_panicked
    /\ Len(prompt.data) < MaxLen
    /\ IF prompt.cursor > Len(prompt.data)
       THEN /\ prompt_panicked' = TRUE
            /\ UNCHANGED prompt
       ELSE /\ prompt' = Prompt_insert(prompt, ch)
            /\ UNCHANGED prompt_panicked
    /\ pop' = [op |-> "insert", ch |-> ch, pre |-> prompt]
    /\ UNCHANGED <<gridVars, emitVars>>
    /\ UNCHANGED otherVars

\* KeyCode::Backspace
Backspace ==
    /\ ~prompt_panicked
    /\ prompt' = Prompt_backspace(prompt)
    /\ pop' = [op |-> "backspace", ch |-> NoChar, pre |-> prompt]
    /\ UNCHANGED <<prompt_panicked, gridVars, emitVars>>
    /\ UNCHANGED otherVars

\* KeyCode::Left, Ctrl-h
CursorMoveLeft ==
    /\ ~prompt_panicked
    /\ prompt' = Prompt_cursor_move_left(prompt)
    /\ pop' = [op |-> "cursor_move_left", ch |-> NoChar, pre |-> prompt]
    /\ UNCHANGED <<prompt_panicked, gridVars, emitVars>>
    /\ UNCHANGED otherVars

\* KeyCode::Right, Ctrl-l
CursorMoveRight ==
    /\ ~prompt_panicked
    /\ prompt' = Prompt_cursor_move_right(prompt)
    /\ pop' = [op |-> "cursor_move_right", ch |-> NoChar, pre |-> prompt]
    /\ UNCHANGED <<prompt_panicked, gridVars, emitVars>>
    /\ UNCHANGED otherVars

\* KeyCode::Esc
Clear ==
    /\ ~prompt_panicked
    /\ prompt' = Prompt_clear(prompt)
    /\ pop' = [op |-> "clear", ch |-> NoChar, pre |-> prompt]
    /\ UNCHANGED <<prompt_panicked, gridVars, emitVars>>
    /\ UNCHANGED otherVars

(***************************************************************************)
(* Cell and TerminalBuffer (terminal_buffer.rs).                           *)
(***************************************************************************)
Cell(ch, fg, bg) == [ch |-> ch, fg |-> fg, bg |-> bg]

Cell_default == Cell(" ", "White", "Black")

TerminalBuffer_new(width, height) ==
    [cells |-> [i \in 0 .. width * height - 1 |-> Cell_default],
     width |-> width,
     height |-> height]

\* self.cells.get_mut(index) is Some
InCells(buffer, index) == index \in DOMAIN buffer.cells

TerminalBuffer_put_cell(buffer, ch, x, y, fg, bg) ==
    LET start_index == y * buffer.width + x
    IN  IF InCells(buffer, start_index)
        THEN [buffer EXCEPT !.cells[start_index] = Cell(ch, fg, bg)]
        ELSE buffer

\* The loop of put_cells from the character at `offset` on; it breaks at the
\* first index past the cells.
RECURSIVE put_cells_from(_, _, _, _, _, _)
put_cells_from(buffer, chs, start_index, offset, fg, bg) ==
    IF offset >= Len(chs)
    THEN buffer
    ELSE IF InCells(buffer, start_index + offset)
         THEN put_cells_from(
                  [buffer EXCEPT !.cells[start_index + offset] =
                                     Cell(chs[offset + 1], fg, bg)],
                  chs, start_index, offset + 1, fg, bg)
         ELSE buffer

TerminalBuffer_put_cells(buffer, chs, x, y, fg, bg) ==
    put_cells_from(buffer, chs, y * buffer.width + x, 0, fg, bg)

TerminalBuffer_clear(buffer) ==
    [buffer EXCEPT !.cells = [i \in DOMAIN buffer.cells |-> Cell_default]]

Patch(cell, x, y) == [cell |-> cell, x |-> x, y |-> y]

\* a filter that compares the glyphs only
diff_filter_glyph_only(a, b) == a.ch /= b.ch

\* .filter(|(_, (a, b))| a != b): Cell derives PartialEq, all three fields.
diff_filter(a, b) == a.ch /= b.ch \/ a.fg /= b.fg \/ a.bg /= b.bg

\* a map that carries the cell of `other`
diff_map_other(i, a, b, width) == Patch(b, i % width, i \div width)

\* .map(|(i, (a, _))| Patch { cell: a.clone(), x: i % width, y: i / width })
diff_map(i, a, b, width) == Patch(a, i % width, i \div width)

\* The iterator chain of diff from index i on: zip, enumerate, filter, map.
RECURSIVE diff_from(_, _, _)
diff_from(self, other, i) ==
    IF ~(InCells(self, i) /\ InCells(other, i))
    THEN <<>>
    ELSE LET a == self.cells[i]
             b == other.cells[i]
             rest == diff_from(self, other, i + 1)
         IN  IF diff_filter(a, b)
             THEN <<diff_map(i, a, b, self.width)>> \o rest
             ELSE rest

TerminalBuffer_diff(self, other) == diff_from(self, other, 0)

\* assert!(self.width == other.width && self.height == other.height)
DiffAssert(self, other) ==
    self.width = other.width /\ self.height = other.height

(***************************************************************************)
(* The grid as main drives it: two buffers of the terminal's size, written *)
(* by the widgets' put_cell and put_cells calls, diffed and swapped.       *)
(***************************************************************************)
\* the cells written: among them and the default cell there is a pair that
\* differs in the glyph only, one in the foreground only, one in the
\* background only
Glyphs == {Cell("a", "White", "Black"), Cell("a", "Red", "Black"),
           Cell(" ", "White", "White")}

\* the character runs handed to put_cells
Runs == UNION {[1 .. n -> {"a", "b"}] : n \in 1 .. MaxRun}

NoCells == [i \in {} |-> Cell_default]

NoGop == [op |-> "new", ch |-> NoChar, chs |-> <<>>, x |-> 0, y |-> 0, pre |-> NoCells]

\* screen_buffer.put_cell(ch, x, y, fg, bg)
PutCell(ch, x, y, fg, bg) ==
    /\ nput < MaxPuts
    /\ screen_buffer' = TerminalBuffer_put_cell(screen_buffer, ch, x, y, fg, bg)
    /\ gop' = [op |-> "put_cell", ch |-> ch, chs |-> <<>>, x |-> x, y |-> y,
               pre |-> screen_buffer.cells]
    /\ nput' = nput + 1
    /\ patches' = <<>>
    /\ UNCHANGED <<prev_screen_buffer, promptVars, emitVars>>
    /\ UNCHANGED otherVars

\* screen_buffer.put_cells(chs, x, y, fg, bg)
PutCells(chs, x, y, fg, bg) ==
    /\ nput < MaxPuts
    /\ screen_buffer' = TerminalBuffer_put_cells(screen_buffer, chs, x, y, fg, bg)
    /\ gop' = [op |-> "put_cells", ch |-> NoChar, chs |-> chs, x |-> x, y |-> y,
               pre |-> screen_buffer.cells]
    /\ nput' = nput + 1
    /\ patches' = <<>>
    /\ UNCHANGED <<prev_screen_buffer, promptVars, emitVars>>
    /\ UNCHANGED otherVars

\* screen_buffer.clear()
BufferClear ==
    /\ screen_buffer' = TerminalBuffer_clear(screen_buffer)
    /\ gop' = [NoGop EXCEPT !.op = "clear", !.pre = screen_buffer.cells]
    /\ patches' = <<>>
    /\ UNCHANGED <<prev_screen_buffer, nput, promptVars, emitVars>>
    /\ UNCHANGED otherVars

\* let patches = screen_buffer.diff(&prev_screen_buffer)
Diff ==
    /\ DiffAssert(screen_buffer, prev_screen_buffer)
    /\ patches' = TerminalBuffer_diff(screen_buffer, prev_screen_buffer)
    /\ gop' = [NoGop EXCEPT !.op = "diff", !.pre = screen_buffer.cells]
    /\ UNCHANGED <<screen_buffer, prev_screen_buffer, nput, promptVars, emitVars>>
    /\ UNCHANGED otherVars

\* std::mem::swap(&mut screen_buffer, &mut prev_screen_buffer)
Swap ==
    /\ screen_buffer' = prev_screen_buffer
    /\ prev_screen_buffer' = screen_buffer
    /\ gop' = [NoGop EXCEPT !.op = "swap", !.pre = screen_buffer.cells]
    /\ patches' = <<>>
    /\ UNCHANGED <<nput, promptVars, emitVars>>
    /\ UNCHANGED otherVars

(***************************************************************************)
(* apply_patches (terminal_buffer.rs): the commands it queues, in order.   *)
(***************************************************************************)
MoveTo(x, y) == [cmd |-> "MoveTo", x |-> x, y |-> y]
SetForegroundColor(c) == [cmd |-> "SetForegroundColor", color |-> c]
SetBackgroundColor(c) == [cmd |-> "SetBackgroundColor", color |-> c]
PrintGlyph(ch) == [cmd |-> "Print", ch |-> ch]

\* the adjacency test without the + 1
needs_move_same_column(x_prev, y_prev, x, y) == ~(y_prev = y /\ x_prev = x)

\* if !(y_prev == *y && x_prev + 1 == *x)
needs_move(x_prev, y_prev, x, y) == ~(y_prev = y /\ x_prev + 1 = x)

\* The body of the for loop for the patch at position k (from 1) of `ps`.
RECURSIVE apply_patches_from(_, _, _, _, _, _)
apply_patches_from(ps, k, fg_curr, bg_curr, x_prev, y_prev) ==
    IF k > Len(ps)
    THEN <<>>
    ELSE LET p == ps[k]
             move == IF needs_move(x_prev, y_prev, p.x, p.y)
                     THEN <<MoveTo(p.x, p.y)>> ELSE <<>>
             fg == IF fg_curr /= p.cell.fg
                   THEN <<SetForegroundColor(p.cell.fg)>> ELSE <<>>
             bg == IF bg_curr /= p.cell.bg
                   THEN <<SetBackgroundColor(p.cell.bg)>> ELSE <<>>
         IN  move \o fg \o bg \o <<PrintGlyph(p.cell.ch)>>
                  \o apply_patches_from(ps, k + 1, p.cell.fg, p.cell.bg, p.x, p.y)

apply_patches(ps) ==
    <<SetForegroundColor("White"), SetBackgroundColor("Black")>>
        \o apply_patches_from(ps, 1, "White", "Black", 0, 0)

\* the cells a patch of a batch carries
EmitCells == {Cell_default, Cell("a", "Black", "White")}

PatchInputs ==
    {Patch(c, x, y) : c \in EmitCells, x \in 0 .. MaxW - 1, y \in 0 .. MaxH - 1}

Batches == UNION {[1 .. n -> PatchInputs] : n \in 0 .. MaxBatch}

\* apply_patches(&mut stdout, &patches)
ApplyPatches ==
    /\ ~emitted
    /\ out' = apply_patches(batch)
    /\ emitted' = TRUE
    /\ UNCHANGED <<batch, promptVars, gridVars>>
    /\ UNCHANGED otherVars

(***************************************************************************)
(* parse_prompt (client.rs).  An Option is a record with a `some` field.   *)
(***************************************************************************)
None == [some |-> FALSE, command |-> <<>>, argument |-> <<>>]

\* position (from 1) of the last space of s, 0 when there is none
last_space(s) ==
    IF \E i \in 1 .. Len(s) : s[i] = " "
    THEN CHOOSE i \in 1 .. Len(s) :
            s[i] = " " /\ \A j \in i + 1 .. Len(s) : s[j] /= " "
    ELSE 0

\* prompt.splitn(2, |x| *x == ' '): position (from 1) of the first space of
\* s, where the slice is split; 0 when there is none
first_space(s) ==
    IF \E i \in 1 .. Len(s) : s[i] = " "
    THEN CHOOSE i \in 1 .. Len(s) :
            s[i] = " " /\ \A j \in 1 .. i - 1 : s[j] /= " "
    ELSE 0

parse_prompt(p) ==
    IF Len(p) = 0 \/ p[1] /= "/"
    THEN None                                   \* strip_prefix(&['/'])?
    ELSE LET rest == SubSeq(p, 2, Len(p))
             k == first_space(rest)
         IN  IF k = 0
             THEN [some |-> TRUE, command |-> rest, argument |-> <<>>]
             ELSE [some |-> TRUE,
                   command |-> SubSeq(rest, 1, k - 1),
                   argument |-> SubSeq(rest, k + 1, Len(rest))]

NotParsed == [done |-> FALSE, result |-> None]

\* the lines handed to parse_prompt on its own
ParseInputs == UNION {[1 .. n -> {"/", " ", "a"}] : n \in 0 .. MaxParseLen}

\* parse_prompt(&prompt.data)
ParsePrompt ==
    /\ ~parsed.done
    /\ parsed' = [done |-> TRUE, result |-> parse_prompt(prompt.data)]
    /\ UNCHANGED <<promptVars, gridVars, emitVars>>
    /\ UNCHANGED <<mainVars, serverVars>>

(***************************************************************************)
(* The client's texts (client.rs).  A String is the sequence of its        *)
(* characters, so that it can be compared, searched and written into the   *)
(* grid cell by cell.                                                      *)
(***************************************************************************)
\* "connect"
connect_name ==
    <<"c", "o", "n", "n", "e", "c", "t">>

\* "disconnect"
disconnect_name ==
    <<"d", "i", "s", "c", "o", "n", "n", "e", "c", "t">>

\* "quit"
quit_name ==
    <<"q", "u", "i", "t">>

\* "help"
help_name ==
    <<"h", "e", "l", "p">>

\* "You are offline. Use "
msg_offline_head ==
    <<"Y", "o", "u", " ", "a", "r", "e", " ", "o", "f", "f", "l", "i", "n",
      "e", ".", " ", "U", "s", "e", " ">>

\* " to connect to a server."
msg_offline_tail ==
    <<" ", "t", "o", " ", "c", "o", "n", "n", "e", "c", "t", " ", "t", "o",
      " ", "a", " ", "s", "e", "r", "v", "e", "r", ".">>

\* "Before sending message you need use /connect <ip> <port> command..."
msg_before_sending ==
    <<"B", "e", "f", "o", "r", "e", " ", "s", "e", "n", "d", "i", "n", "g",
      " ", "m", "e", "s", "s", "a", "g", "e", " ", "y", "o", "u", " ", "n",
      "e", "e", "d", " ", "u", "s", "e", " ", "/", "c", "o", "n", "n", "e",
      "c", "t", " ", "<", "i", "p", ">", " ", "<", "p", "o", "r", "t", ">",
      " ", "c", "o", "m", "m", "a", "n", "d", ".", ".", ".">>

\* the character U+0060 (grave accent), which a TLA+ string cannot hold
Grave == "U+0060"

\* "Unknown command " and the opening grave accent and "/"
msg_unknown_head ==
    <<"U", "n", "k", "n", "o", "w", "n", " ", "c", "o", "m", "m", "a", "n", "d",
      " ", Grave, "/">>

\* "Could not connect to "
msg_could_not_connect ==
    <<"C", "o", "u", "l", "d", " ", "n", "o", "t", " ", "c", "o", "n", "n",
      "e", "c", "t", " ", "t", "o", " ">>

\* "You are already connected to a server. Disconnect with /disconnect first."
msg_already_connected ==
    <<"Y", "o", "u", " ", "a", "r", "e", " ", "a", "l", "r", "e", "a", "d",
      "y", " ", "c", "o", "n", "n", "e", "c", "t", "e", "d", " ", "t", "o",
      " ", "a", " ", "s", "e", "r", "v", "e", "r", ".", " ", "D", "i", "s",
      "c", "o", "n", "n", "e", "c", "t", " ", "w", "i", "t", "h", " ", "/",
      "d", "i", "s", "c", "o", "n", "n", "e", "c", "t", " ", "f", "i", "r",
      "s", "t", ".">>

\* "Disconnected."
msg_disconnected ==
    <<"D", "i", "s", "c", "o", "n", "n", "e", "c", "t", "e", "d", ".">>

\* "You are already offline. To connect use /connect <ip>"
msg_already_offline ==
    <<"Y", "o", "u", " ", "a", "r", "e", " ", "a", "l", "r", "e", "a", "d",
      "y", " ", "o", "f", "f", "l", "i", "n", "e", ".", " ", "T", "o", " ",
      "c", "o", "n", "n", "e", "c", "t", " ", "u", "s", "e", " ", "/", "c",
      "o", "n", "n", "e", "c", "t", " ", "<", "i", "p", ">">>

\* "simple-chat"
label_simple_chat ==
    <<"s", "i", "m", "p", "l", "e", "-", "c", "h", "a", "t">>

\* "Online"
label_online ==
    <<"O", "n", "l", "i", "n", "e">>

\* "Connection refused (os error 111)"
io_error_text ==
    <<"C", "o", "n", "n", "e", "c", "t", "i", "o", "n", " ", "r", "e", "f",
      "u", "s", "e", "d", " ", "(", "o", "s", " ", "e", "r", "r", "o", "r",
      " ", "1", "1", "1", ")">>

(***************************************************************************)
(* Client, ChatLog and the commands (client.rs).                           *)
(***************************************************************************)
Client_default == [stream |-> "None", chat |-> <<>>, quit |-> FALSE]

\* ChatLog::insert
ChatLog_insert(chat, message, color) ==
    Append(chat, [message |-> message, color |-> color])

chat_msg(cl, message) ==
    [cl EXCEPT !.chat = ChatLog_insert(cl.chat, message, "White")]

chat_error(cl, message) ==
    [cl EXCEPT !.chat = ChatLog_insert(cl.chat, message, "Red")]

chat_info(cl, message) ==
    [cl EXCEPT !.chat = ChatLog_insert(cl.chat, message, "Blue")]

COMMANDS ==
    <<[name |-> connect_name, run |-> "connect_command",
       description |->
           <<"C", "o", "n", "n", "e", "c", "t", " ", "t", "o", " ", "a", " ", "s",
             "e", "r", "v", "e", "r", " ", "b", "y", " ", "<", "i", "p", ">">>,
       signature |->
           <<"/", "c", "o", "n", "n", "e", "c", "t", " ", "<", "i", "p", ">">>],
      [name |-> disconnect_name, run |-> "disconnect_command",
       description |->
           <<"D", "i", "s", "c", "o", "n", "n", "e", "c", "t", " ", "f", "r", "o",
             "m", " ", "t", "h", "e", " ", "s", "e", "r", "v", "e", "r", " ", "w",
             "h", "i", "c", "h", " ", "o", "n", "e", " ", "y", "o", "u", " ", "a",
             "r", "e", " ", "c", "u", "r", "r", "e", "n", "t", "l", "y", " ", "c",
             "o", "n", "n", "e", "c", "t", "e", "d", " ", "t", "o">>,
       signature |->
           <<"/", "d", "i", "s", "c", "o", "n", "n", "e", "c", "t">>],
      [name |-> quit_name, run |-> "quit_command",
       description |->
           <<"C", "l", "o", "s", "e", " ", "t", "h", "e", " ", "c", "h", "a", "t">>,
       signature |->
           <<"/", "q", "u", "i", "t">>],
      [name |-> help_name, run |-> "help_command",
       description |->
           <<"P", "r", "i", "n", "t", " ", "h", "e", "l", "p">>,
       signature |->
           <<"/", "h", "e", "l", "p", " ", "[", "c", "o", "m", "m", "a", "n", "d",
             "]">>]>>

NoCommand == [some |-> FALSE, command |-> COMMANDS[1]]

\* COMMANDS.iter().find(|command| command.name == name)
find_command(name) ==
    IF \E i \in 1 .. Len(COMMANDS) : COMMANDS[i].name = name
    THEN [some |-> TRUE,
          command |-> COMMANDS[CHOOSE i \in 1 .. Len(COMMANDS) :
                                  /\ COMMANDS[i].name = name
                                  /\ \A j \in 1 .. i - 1 : COMMANDS[j].name /= name]]
    ELSE NoCommand

\* str::trim: without the leading and the trailing spaces
RECURSIVE trim_start(_)
trim_start(s) ==
    IF Len(s) > 0 /\ s[1] = " " THEN trim_start(Tail(s)) ELSE s

RECURSIVE trim_end(_)
trim_end(s) ==
    IF Len(s) > 0 /\ s[Len(s)] = " "
    THEN trim_end(SubSeq(s, 1, Len(s) - 1)) ELSE s

trim(s) == trim_end(trim_start(s))

\* connect_command; `connected` is whether TcpStream::connect and
\* set_nonblocking both succeeded.
connect_command(cl, argument, connected) ==
    LET ip == argument
    IN  IF cl.stream = "None"
        THEN IF connected
             THEN [cl EXCEPT !.stream = "Some"]
             ELSE chat_error(cl,
                      msg_could_not_connect \o ip \o <<":", " ">> \o io_error_text)
        ELSE chat_error(cl, msg_already_connected)

disconnect_command(cl, argument) ==
    IF cl.stream /= "None"
    THEN chat_info([cl EXCEPT !.stream = "None"], msg_disconnected)
    ELSE chat_info(cl, msg_already_offline)

quit_command(cl, argument) == [cl EXCEPT !.quit = TRUE]

\* the for loop of help_command over COMMANDS, from position i on
RECURSIVE help_all(_, _)
help_all(cl, i) ==
    IF i > Len(COMMANDS)
    THEN cl
    ELSE help_all(chat_info(cl, COMMANDS[i].signature \o <<" ", "-", " ">>
                                        \o COMMANDS[i].description),
                  i + 1)

help_command(cl, argument) ==
    LET name == trim(argument)
    IN  IF Len(name) = 0
        THEN help_all(cl, 1)
        ELSE LET found == find_command(name)
             IN  IF found.some
                 THEN chat_info(cl, found.command.signature \o <<" ", "-", " ">>
                                            \o found.command.description)
                 ELSE chat_error(cl, msg_unknown_head \o name \o <<Grave>>)

\* (command.run)(&mut client, &argument)
run_command(command, cl, argument, connected) ==
    CASE command.run = "connect_command" -> connect_command(cl, argument, connected)
      [] command.run = "disconnect_command" -> disconnect_command(cl, argument)
      [] command.run = "quit_command" -> quit_command(cl, argument)
      [] command.run = "help_command" -> help_command(cl, argument)

\* Prompt::get
Prompt_get(p) == p.data

\* The first half of the KeyCode::Enter arm: the command, or the message.
\* `written` is whether stream.write succeeded; when it did not, the `?`
\* returns from main.
enter_dispatch(cl, p, connected, written) ==
    LET parse == parse_prompt(p.data)
    IN  IF parse.some
        THEN LET found == find_command(parse.command)
             IN  IF found.some
                 THEN [client |-> run_command(found.command, cl,
                                              parse.argument, connected),
                       result |-> "Ok"]
                 ELSE [client |-> chat_error(cl, msg_unknown_head
                                      \o parse.command \o <<Grave>>),
                       result |-> "Ok"]
        ELSE IF cl.stream /= "None"
             THEN IF written
                  THEN [client |-> chat_msg(cl, p.data), result |-> "Ok"]
                  ELSE [client |-> cl, result |-> "Err"]
             ELSE [client |-> chat_info(cl, msg_offline_head
                                  \o find_command(connect_name).command.signature
                                  \o msg_offline_tail),
                   result |-> "Ok"]

\* The second half of the KeyCode::Enter arm, after the dispatch.
enter_tail(cl, p) ==
    IF cl.stream = "None"
    THEN [client |-> [cl EXCEPT !.chat =
                         ChatLog_insert(cl.chat, msg_before_sending, "Blue")],
          prompt |-> p]
    ELSE [client |-> [cl EXCEPT !.chat =
                         ChatLog_insert(cl.chat, Prompt_get(p), "White")],
          prompt |-> Prompt_clear(p)]

\* The KeyCode::Enter arm.
key_enter(cl, p, connected, written) ==
    LET d == enter_dispatch(cl, p, connected, written)
    IN  IF d.result = "Err"
        THEN [client |-> d.client, prompt |-> p, result |-> "Err"]
        ELSE LET t == enter_tail(d.client, p)
             IN  [client |-> t.client, prompt |-> t.prompt, result |-> "Ok"]

(***************************************************************************)
(* What one frame draws (client.rs): status_bar, ChatLog::render,          *)
(* Prompt::render, Prompt::sync_cursor_with_terminal.                      *)
(***************************************************************************)
Min(a, b) == IF a < b THEN a ELSE b

\* for pos_x in from..w { buffer.put_cell(' ', pos_x, y, fg, bg) }
RECURSIVE pad_from(_, _, _, _, _, _)
pad_from(buffer, pos_x, w, y, fg, bg) ==
    IF pos_x >= w
    THEN buffer
    ELSE pad_from(TerminalBuffer_put_cell(buffer, " ", pos_x, y, fg, bg),
                  pos_x + 1, w, y, fg, bg)

status_bar(buffer, label, x, y, w) ==
    LET n == Min(Len(label), w)
    IN  pad_from(TerminalBuffer_put_cells(buffer, SubSeq(label, 1, n), x, y,
                                          "Black", "White"),
                 Len(label), w, y, "Black", "White")

\* the loop of ChatLog::render over the entries, from entry dy on
RECURSIVE ChatLog_render_from(_, _, _, _, _)
ChatLog_render_from(chat, buffer, x, y, dy) ==
    IF dy >= Len(chat)
    THEN buffer
    ELSE ChatLog_render_from(
             chat,
             TerminalBuffer_put_cells(buffer, chat[dy + 1].message, x, y + dy,
                                      chat[dy + 1].color, "Black"),
             x, y, dy + 1)

ChatLog_render(chat, buffer, x, y) == ChatLog_render_from(chat, buffer, x, y, 0)

Prompt_render(p, buffer, x, y, w) ==
    pad_from(TerminalBuffer_put_cells(buffer, p.data, x, y, "White", "Black"),
             Len(p.data), w, y, "White", "Black")

Prompt_sync_cursor_with_terminal(p, x, y, w) ==
    LET cursor_x_pos == Min(x + p.cursor, w)
    IN  <<MoveTo(cursor_x_pos, y)>>

\* screen_buffer from clear() to the last render of one iteration
render_frame(buffer, c, p, w, h) ==
    LET cleared == TerminalBuffer_clear(buffer)
        titled == status_bar(cleared, label_simple_chat, 0, 0, w)
        logged == ChatLog_render(c.chat, titled, 0, 1)
        barred == IF h >= 2 THEN status_bar(logged, label_online, 0, h - 2, w)
                  ELSE logged
    IN  IF h >= 1 THEN Prompt_render(p, barred, 0, h - 1, w) ELSE barred

(***************************************************************************)
(* The terminal that executes what is queued to stdout: a grid of cells,   *)
(* a cursor and the current colours.  Print writes the glyph at the cursor *)
(* and advances the cursor one column; a glyph printed after the last      *)
(* column of a row goes to the start of the next row, and the rows scroll  *)
(* up when there is none.  MoveTo stops at the last column and row.        *)
(***************************************************************************)
ClearAll == [cmd |-> "Clear"]

Terminal_new(w, h) ==
    [cells |-> [i \in 0 .. w * h - 1 |-> Cell_default],
     x |-> 0, y |-> 0, fg |-> "White", bg |-> "Black"]

Terminal_print(t, ch, w, h) ==
    LET wrap == t.x >= w
        scroll == wrap /\ t.y >= h - 1
        cells == IF scroll
                 THEN [i \in DOMAIN t.cells |->
                          IF i + w \in DOMAIN t.cells THEN t.cells[i + w]
                          ELSE Cell_default]
                 ELSE t.cells
        x == IF wrap THEN 0 ELSE t.x
        y == IF wrap /\ ~scroll THEN t.y + 1 ELSE t.y
    IN  [t EXCEPT !.cells = [cells EXCEPT ![y * w + x] = Cell(ch, t.fg, t.bg)],
                  !.x = x + 1, !.y = y]

Terminal_step(t, c, w, h) ==
    CASE c.cmd = "Clear" ->
            [t EXCEPT !.cells = [i \in DOMAIN t.cells |-> Cell_default]]
      [] c.cmd = "MoveTo" ->
            [t EXCEPT !.x = Min(c.x, w - 1), !.y = Min(c.y, h - 1)]
      [] c.cmd = "SetForegroundColor" -> [t EXCEPT !.fg = c.color]
      [] c.cmd = "SetBackgroundColor" -> [t EXCEPT !.bg = c.color]
      [] c.cmd = "Print" -> Terminal_print(t, c.ch, w, h)

RECURSIVE Terminal_run(_, _, _, _, _)
Terminal_run(t, cmds, k, w, h) ==
    IF k > Len(cmds)
    THEN t
    ELSE Terminal_run(Terminal_step(t, cmds[k], w, h), cmds, k + 1, w, h)

\* the loop of TerminalBuffer::flush over the cells, from cell i on
RECURSIVE flush_from(_, _, _, _)
flush_from(buffer, i, curr_fg_color, curr_bg_color) ==
    IF ~InCells(buffer, i)
    THEN <<>>
    ELSE LET cell == buffer.cells[i]
         IN  (IF curr_fg_color /= cell.fg
              THEN <<SetForegroundColor(cell.fg)>> ELSE <<>>)
             \o (IF curr_bg_color /= cell.bg
                 THEN <<SetBackgroundColor(cell.bg)>> ELSE <<>>)
             \o <<PrintGlyph(cell.ch)>>
             \o flush_from(buffer, i + 1, cell.fg, cell.bg)

TerminalBuffer_flush(buffer) ==
    <<ClearAll, SetForegroundColor("White"), SetBackgroundColor("Black"),
      MoveTo(0, 0)>> \o flush_from(buffer, 0, "White", "Black")

(***************************************************************************)
(* main (client.rs): the frame loop.  One iteration is a step that handles *)
(* at most one event (main_pc "poll" to "render") and a step that draws    *)
(* the frame (main_pc "render" to "poll", or to "Ok" once quit is set).    *)
(* poll, read and the writes to stdout are taken to succeed.               *)
(***************************************************************************)
NoKey == [key |-> "None", prompt |-> Prompt_default, client |-> Client_default,
          result |-> "Ok"]

Key(name, result) ==
    [key |-> name, prompt |-> prompt, client |-> client, result |-> result]

\* poll() returned false, or read() returned an event no arm handles
NoEvent ==
    /\ main_pc = "poll"
    /\ main_pc' = "render"
    /\ kev' = NoKey
    /\ UNCHANGED <<client, term, net>>
    /\ UNCHANGED <<promptVars, gridVars, emitVars, parseVars, serverVars>>

\* KeyCode::Char(ch) without CONTROL
KeyChar(ch) ==
    /\ main_pc = "poll"
    /\ ~prompt_panicked
    /\ IF prompt.cursor > Len(prompt.data)
       THEN /\ prompt_panicked' = TRUE
            /\ main_pc' = "Err"
            /\ UNCHANGED prompt
       ELSE /\ prompt' = Prompt_insert(prompt, ch)
            /\ main_pc' = "render"
            /\ UNCHANGED prompt_panicked
    /\ kev' = Key("Char", "Ok")
    /\ UNCHANGED <<client, term, net>>
    /\ UNCHANGED <<pop, gridVars, emitVars, parseVars, serverVars>>

\* KeyCode::Char('c') with CONTROL
KeyCtrlC ==
    /\ main_pc = "poll"
    /\ client' = quit_command(client, <<>>)
    /\ main_pc' = "render"
    /\ kev' = Key("Ctrl-c", "Ok")
    /\ UNCHANGED <<term, net>>
    /\ UNCHANGED <<promptVars, gridVars, emitVars, parseVars, serverVars>>

\* KeyCode::Enter.  Disconnecting drops the socket and what waits in it.
KeyEnter(connected, written) ==
    /\ main_pc = "poll"
    /\ LET r == key_enter(client, prompt, connected, written)
       IN  /\ client' = r.client
           /\ prompt' = r.prompt
           /\ main_pc' = IF r.result = "Err" THEN "Err" ELSE "render"
           /\ kev' = Key("Enter", r.result)
           /\ net' = IF r.client.stream = "None" THEN <<>> ELSE net
    /\ UNCHANGED term
    /\ UNCHANGED <<prompt_panicked, pop, gridVars, emitVars, parseVars, serverVars>>

\* KeyCode::Backspace
KeyBackspace ==
    /\ main_pc = "poll"
    /\ prompt' = Prompt_backspace(prompt)
    /\ main_pc' = "render"
    /\ kev' = Key("Backspace", "Ok")
    /\ UNCHANGED <<client, term, net>>
    /\ UNCHANGED <<prompt_panicked, pop, gridVars, emitVars, parseVars, serverVars>>

\* KeyCode::Left, and KeyCode::Char('h') with CONTROL
KeyLeft ==
    /\ main_pc = "poll"
    /\ prompt' = Prompt_cursor_move_left(prompt)
    /\ main_pc' = "render"
    /\ kev' = Key("Left", "Ok")
    /\ UNCHANGED <<client, term, net>>
    /\ UNCHANGED <<prompt_panicked, pop, gridVars, emitVars, parseVars, serverVars>>

\* KeyCode::Right, and KeyCode::Char('l') with CONTROL
KeyRight ==
    /\ main_pc = "poll"
    /\ prompt' = Prompt_cursor_move_right(prompt)
    /\ main_pc' = "render"
    /\ kev' = Key("Right", "Ok")
    /\ UNCHANGED <<client, term, net>>
    /\ UNCHANGED <<prompt_panicked, pop, gridVars, emitVars, parseVars, serverVars>>

\* KeyCode::Esc
KeyEsc ==
    /\ main_pc = "poll"
    /\ prompt' = Prompt_clear(prompt)
    /\ main_pc' = "render"
    /\ kev' = Key("Esc", "Ok")
    /\ UNCHANGED <<client, term, net>>
    /\ UNCHANGED <<prompt_panicked, pop, gridVars, emitVars, parseVars, serverVars>>

\* a loop that never looks at the quit flag
loop_condition_always(cl) == "poll"

\* `while !client.quit`, tested after the sleep: where main goes next
loop_condition(cl) == IF cl.quit THEN "Ok" ELSE "poll"

\* The rest of the iteration: clear, the renders, diff, apply_patches, the
\* cursor, flush of stdout, swap; then the loop condition.
RenderFrame ==
    /\ main_pc = "render"
    /\ LET w == screen_buffer.width
           h == screen_buffer.height
           drawn == render_frame(screen_buffer, client, prompt, w, h)
           ps == TerminalBuffer_diff(drawn, prev_screen_buffer)
           queued == apply_patches(ps)
                     \o (IF h >= 1
                         THEN Prompt_sync_cursor_with_terminal(prompt, 0, h - 1, w)
                         ELSE <<>>)
       IN  /\ patches' = ps
           /\ out' = queued
           /\ term' = Terminal_run(term, queued, 1, w, h)
           /\ screen_buffer' = prev_screen_buffer
           /\ prev_screen_buffer' = drawn
    /\ main_pc' = loop_condition(client)
    /\ kev' = NoKey
    /\ UNCHANGED <<client, net>>
    /\ UNCHANGED <<promptVars, gop, nput, batch, emitted, parseVars, serverVars>>

\* The server writes a chunk to the connection.
PeerSend(chunk) ==
    /\ main_pc \in {"poll", "render"}
    /\ client.stream = "Some"
    /\ Len(net) < MaxInbox
    /\ net' = Append(net, chunk)
    /\ UNCHANGED <<client, main_pc, term, kev>>
    /\ UNCHANGED <<promptVars, gridVars, emitVars, parseVars, serverVars>>

(***************************************************************************)
(* The server (server.rs).  An address stands for the connection accepted  *)
(* from it and for its TcpStream.  A String is the sequence of the code    *)
(* points of its chars.                                                    *)
(***************************************************************************)
BuffSize == 64

Addrs == 1 .. MaxClients

ClientConnected(address) ==
    [kind |-> "ClientConnected", address |-> address, message |-> <<>>]

ClientDisconnected(address) ==
    [kind |-> "ClientDisconnected", address |-> address, message |-> <<>>]

NewMessage(author, message) ==
    [kind |-> "NewMessage", address |-> author, message |-> message]

\* let mut buff = [0; 64]
buff_new == [i \in 0 .. BuffSize - 1 |-> 0]

\* read(&mut buff) returning data: the first Len(data) bytes are overwritten
buff_read(buff, data) ==
    [i \in DOMAIN buff |-> IF i < Len(data) THEN data[i + 1] ELSE buff[i]]

\* for c in buff.iter() { if *c >= 32 { mesg.push(*c as char) } }, from byte i on
RECURSIVE mesg_from(_, _)
mesg_from(buff, i) ==
    IF i \notin DOMAIN buff
    THEN <<>>
    ELSE (IF buff[i] >= 32 THEN <<buff[i]>> ELSE <<>>) \o mesg_from(buff, i + 1)

\* String::as_bytes: the UTF-8 encoding of chars below U+0100
RECURSIVE as_bytes(_)
as_bytes(message) ==
    IF Len(message) = 0
    THEN <<>>
    ELSE (IF Head(message) < 128
          THEN <<Head(message)>>
          ELSE <<192 + (Head(message) \div 64), 128 + (Head(message) % 64)>>)
         \o as_bytes(Tail(message))

NoConn == [a \in Addrs |-> [pc |-> "none", stream |-> "open", buff |-> buff_new]]

NoSop == [kind |-> "None", address |-> 0, message |-> <<>>, payload |-> <<>>,
          registry |-> {}, wrote |-> {}, result |-> "Ok"]

NoHop == [address |-> 0, n |-> 0, data |-> <<>>, mesg |-> <<>>]

\* sender.send(message): fails once the server thread has dropped the receiver
send(message) ==
    IF server_pc = "Err" THEN chan ELSE Append(chan, message)

send_result == IF server_pc = "Err" THEN "Err" ELSE "read"

\* main: listener.incoming() yields a connection and a `client` thread is
\* spawned for it.
Accept(a) ==
    /\ conn[a].pc = "none"
    /\ \A b \in Addrs : b < a => conn[b].pc /= "none"
    /\ conn' = [conn EXCEPT ![a].pc = "start"]
    /\ UNCHANGED <<chan, clients, server_pc, sop, hop>>
    /\ UNCHANGED <<promptVars, gridVars, emitVars, parseVars, mainVars>>

\* The peer closes or loses the connection: from now on reads return 0 or
\* fail, and writes may fail.
PeerClose(a) ==
    /\ conn[a].pc /= "none"
    /\ conn[a].stream = "open"
    /\ conn' = [conn EXCEPT ![a].stream = "closed"]
    /\ UNCHANGED <<chan, clients, server_pc, sop, hop>>
    /\ UNCHANGED <<promptVars, gridVars, emitVars, parseVars, mainVars>>

\* client(): peer_addr, the welcome write, and the send of ClientConnected.
\* `ok` is whether peer_addr and the write succeeded.
ClientStart(a, ok) ==
    /\ conn[a].pc = "start"
    /\ ok \/ conn[a].stream = "closed"
    /\ Len(chan) < MaxChan
    /\ IF ok
       THEN /\ chan' = send(ClientConnected(a))
            /\ conn' = [conn EXCEPT ![a].pc = send_result]
       ELSE /\ conn' = [conn EXCEPT ![a].pc = "Err"]
            /\ UNCHANGED chan
    /\ UNCHANGED <<clients, server_pc, sop, hop>>
    /\ UNCHANGED <<promptVars, gridVars, emitVars, parseVars, mainVars>>

\* client(): one read that returns the bytes `data` (n > 0), and the send of
\* NewMessage.
ClientRead(a, data) ==
    /\ conn[a].pc = "read"
    /\ conn[a].stream = "open"
    /\ Len(data) > 0
    /\ Len(chan) < MaxChan
    /\ LET buff == buff_read(conn[a].buff, data)
           mesg == mesg_from(buff, 0)
       IN  /\ chan' = send(NewMessage(a, mesg))
           /\ conn' = [conn EXCEPT ![a].buff = buff, ![a].pc = send_result]
           /\ hop' = [address |-> a, n |-> Len(data), data |-> data, mesg |-> mesg]
    /\ UNCHANGED <<clients, server_pc, sop>>
    /\ UNCHANGED <<promptVars, gridVars, emitVars, parseVars, mainVars>>

\* client(): one read that returns 0, and the send of ClientDisconnected; the
\* thread stays in its loop.
ClientReadZero(a) ==
    /\ conn[a].pc = "read"
    /\ conn[a].stream = "closed"
    /\ Len(chan) < MaxChan
    /\ chan' = send(ClientDisconnected(a))
    /\ conn' = [conn EXCEPT ![a].pc = send_result]
    /\ hop' = [address |-> a, n |-> 0, data |-> <<>>, mesg |-> <<>>]
    /\ UNCHANGED <<clients, server_pc, sop>>
    /\ UNCHANGED <<promptVars, gridVars, emitVars, parseVars, mainVars>>

\* client(): one read that fails; the thread returns.
ClientReadErr(a) ==
    /\ conn[a].pc = "read"
    /\ conn[a].stream = "closed"
    /\ conn' = [conn EXCEPT ![a].pc = "Err"]
    /\ UNCHANGED <<chan, clients, server_pc, sop, hop>>
    /\ UNCHANGED <<promptVars, gridVars, emitVars, parseVars, mainVars>>

\* a write to the stream of `a` that fails is one to a closed connection
CanFail(a) == conn[a].stream = "closed"

\* server(): recv yields ClientConnected.  `ok` is whether the welcome write
\* succeeded.
ServerClientConnected(ok) ==
    /\ server_pc = "recv"
    /\ Len(chan) > 0
    /\ Head(chan).kind = "ClientConnected"
    /\ LET address == Head(chan).address
       IN  /\ ok \/ CanFail(address)
           /\ clients' = IF ok THEN clients \cup {address} ELSE clients
           /\ server_pc' = IF ok THEN "recv" ELSE "Err"
           /\ sop' = [kind |-> "ClientConnected", address |-> address,
                      message |-> <<>>, payload |-> <<>>, registry |-> clients,
                      wrote |-> IF ok THEN {address} ELSE {},
                      result |-> IF ok THEN "Ok" ELSE "Err"]
    /\ chan' = Tail(chan)
    /\ UNCHANGED <<conn, hop>>
    /\ UNCHANGED <<promptVars, gridVars, emitVars, parseVars, mainVars>>

\* server(): recv yields ClientDisconnected.  `ok` is whether the write of the
\* notice succeeded, when the address was in the map.
ServerClientDisconnected(ok) ==
    /\ server_pc = "recv"
    /\ Len(chan) > 0
    /\ Head(chan).kind = "ClientDisconnected"
    /\ LET address == Head(chan).address
           removed == address \in clients
       IN  /\ ok \/ (removed /\ CanFail(address))
           /\ clients' = clients \ {address}
           /\ server_pc' = IF ok THEN "recv" ELSE "Err"
           /\ sop' = [kind |-> "ClientDisconnected", address |-> address,
                      message |-> <<>>, payload |-> <<>>, registry |-> clients,
                      wrote |-> IF ok /\ removed THEN {address} ELSE {},
                      result |-> IF ok THEN "Ok" ELSE "Err"]
    /\ chan' = Tail(chan)
    /\ UNCHANGED <<conn, hop>>
    /\ UNCHANGED <<promptVars, gridVars, emitVars, parseVars, mainVars>>

\* the addresses the loop over clients.iter() writes to
targets(registry, author) == {addr \in registry : addr /= author}

\* server(): recv yields NewMessage.  The map is iterated in an order of its
\* own; `wrote` are the addresses written before the loop ended, `failed` is
\* the set of the one address whose write failed, or empty.
ServerNewMessage(wrote, failed) ==
    /\ server_pc = "recv"
    /\ Len(chan) > 0
    /\ Head(chan).kind = "NewMessage"
    /\ LET author == Head(chan).address
           message == Head(chan).message
       IN  /\ \/ failed = {} /\ wrote = targets(clients, author)
              \/ \E addr \in targets(clients, author) :
                    /\ CanFail(addr)
                    /\ failed = {addr}
                    /\ wrote \subseteq targets(clients, author) \ {addr}
           /\ server_pc' = IF failed = {} THEN "recv" ELSE "Err"
           /\ sop' = [kind |-> "NewMessage", address |-> author,
                      message |-> message, payload |-> as_bytes(message),
                      registry |-> clients, wrote |-> wrote,
                      result |-> IF failed = {} THEN "Ok" ELSE "Err"]
    /\ chan' = Tail(chan)
    /\ UNCHANGED <<clients, conn, hop>>
    /\ UNCHANGED <<promptVars, gridVars, emitVars, parseVars, mainVars>>

(***************************************************************************)
(* Specifications.  Each drives one component; the others stay as main     *)
(* constructs them.                                                        *)
(***************************************************************************)

\* The Prompt under the key events that edit it.
PromptInit ==
    /\ prompt = Prompt_default
    /\ prompt_panicked = FALSE
    /\ pop = NoPop
    /\ screen_buffer = TerminalBuffer_new(1, 1)
    /\ prev_screen_buffer = TerminalBuffer_new(1, 1)
    /\ patches = <<>>
    /\ gop = NoGop
    /\ nput = 0
    /\ batch = <<>>
    /\ out = <<>>
    /\ emitted = FALSE
    /\ parsed = NotParsed
    /\ client = Client_default
    /\ main_pc = "off"
    /\ term = Terminal_new(1, 1)
    /\ kev = NoKey
    /\ net = <<>>
    /\ chan = <<>>
    /\ clients = {}
    /\ server_pc = "off"
    /\ conn = NoConn
    /\ sop = NoSop
    /\ hop = NoHop

PromptNext ==
    \/ \E ch \in Chars : Insert(ch)
    \/ Backspace
    \/ CursorMoveLeft
    \/ CursorMoveRight
    \/ Clear

SpecPrompt == PromptInit /\ [][PromptNext]_vars

\* Two buffers of one terminal size, both as TerminalBuffer::new leaves them.
GridInit ==
    /\ prompt = Prompt_default
    /\ prompt_panicked = FALSE
    /\ pop = NoPop
    /\ \E w \in 1 .. MaxW, h \in 1 .. MaxH :
          /\ screen_buffer = TerminalBuffer_new(w, h)
          /\ prev_screen_buffer = TerminalBuffer_new(w, h)
    /\ patches = <<>>
    /\ gop = NoGop
    /\ nput = 0
    /\ batch = <<>>
    /\ out = <<>>
    /\ emitted = FALSE
    /\ parsed = NotParsed
    /\ client = Client_default
    /\ main_pc = "off"
    /\ term = Terminal_new(1, 1)
    /\ kev = NoKey
    /\ net = <<>>
    /\ chan = <<>>
    /\ clients = {}
    /\ server_pc = "off"
    /\ conn = NoConn
    /\ sop = NoSop
    /\ hop = NoHop

\* put_cell and put_cells at every position up to one past the last column
\* and one past the last row.
PutNext ==
    \/ \E g \in Glyphs :
          \E x \in 0 .. screen_buffer.width, y \in 0 .. screen_buffer.height :
             PutCell(g.ch, x, y, g.fg, g.bg)
    \/ \E chs \in Runs, g \in Glyphs :
          \E x \in 0 .. screen_buffer.width, y \in 0 .. screen_buffer.height :
             PutCells(chs, x, y, g.fg, g.bg)
    \/ BufferClear

SpecPut == GridInit /\ [][PutNext]_vars

\* The buffers written cell by cell, cleared, diffed and swapped.
DiffNext ==
    \/ \E g \in Glyphs :
          \E x \in 0 .. screen_buffer.width - 1, y \in 0 .. screen_buffer.height - 1 :
             PutCell(g.ch, x, y, g.fg, g.bg)
    \/ BufferClear
    \/ Diff
    \/ Swap

SpecDiff == GridInit /\ [][DiffNext]_vars

\* apply_patches on one batch of patches.
EmitInit ==
    /\ prompt = Prompt_default
    /\ prompt_panicked = FALSE
    /\ pop = NoPop
    /\ screen_buffer = TerminalBuffer_new(1, 1)
    /\ prev_screen_buffer = TerminalBuffer_new(1, 1)
    /\ patches = <<>>
    /\ gop = NoGop
    /\ nput = 0
    /\ batch \in Batches
    /\ out = <<>>
    /\ emitted = FALSE
    /\ parsed = NotParsed
    /\ client = Client_default
    /\ main_pc = "off"
    /\ term = Terminal_new(1, 1)
    /\ kev = NoKey
    /\ net = <<>>
    /\ chan = <<>>
    /\ clients = {}
    /\ server_pc = "off"
    /\ conn = NoConn
    /\ sop = NoSop
    /\ hop = NoHop

EmitNext == ApplyPatches

SpecEmit == EmitInit /\ [][EmitNext]_vars

(***************************************************************************)
(* Prompt properties, under SpecPrompt.                                    *)
(***************************************************************************)

\* C5: starting from the empty Prompt, after any sequence of insert,
\* backspace, cursor_move_left, cursor_move_right and clear, the cursor is
\* between 0 and the length of data (and no insert has panicked).
C5_CursorWithinData ==
    /\ 0 <= prompt.cursor
    /\ prompt.cursor <= Len(prompt.data)
    /\ ~prompt_panicked

\* a backspace has acted on a line with the cursor at its end, and left it there
C5_Witness ==
    /\ pop.op = "backspace"
    /\ pop.pre.cursor = Len(pop.pre.data)
    /\ prompt.cursor = Len(prompt.data)
    /\ Len(prompt.data) > 0

\* data without the character at Rust index i
RemoveAt(data, i) == SubSeq(data, 1, i) \o SubSeq(data, i + 2, Len(data))

\* C6: with cursor = c > 0, backspace removes exactly the character at index
\* c-1, keeps the others in order, and sets the cursor to c-1, also when the
\* cursor is in the middle of the line.
C6_BackspaceRemovesBeforeCursor ==
    (pop.op = "backspace" /\ pop.pre.cursor > 0) =>
        /\ prompt.data = RemoveAt(pop.pre.data, pop.pre.cursor - 1)
        /\ prompt.cursor = pop.pre.cursor - 1

\* C7: with cursor = 0, backspace changes neither data nor cursor, also when
\* data is not empty.
C7_BackspaceAtZeroNoOp ==
    (pop.op = "backspace" /\ pop.pre.cursor = 0) => prompt = pop.pre

\* C8: insert(ch) at cursor c gives data[0..c] ++ [ch] ++ data[c..] and cursor
\* c+1 (so inserting a, b, c into the empty Prompt gives <<a, b, c>> with
\* cursor 3), and cursor_move_left at cursor 0 leaves the cursor at 0.
C8_InsertAtCursor ==
    /\ pop.op = "insert" =>
          LET c == pop.pre.cursor
              d == pop.pre.data
          IN  /\ Len(prompt.data) = Len(d) + 1
              /\ \A i \in 1 .. Len(prompt.data) :
                    prompt.data[i] = IF i <= c THEN d[i]
                                     ELSE IF i = c + 1 THEN pop.ch
                                     ELSE d[i - 1]
              /\ prompt.cursor = c + 1
    /\ (pop.op = "insert" /\ pop.pre = [data |-> <<"a", "b">>, cursor |-> 2]
            /\ pop.ch = "c") =>
          prompt = [data |-> <<"a", "b", "c">>, cursor |-> 3]
    /\ (pop.op = "cursor_move_left" /\ pop.pre.cursor = 0) =>
          prompt = pop.pre

\* an insert has acted in the middle of a line
C8_Witness ==
    /\ pop.op = "insert"
    /\ pop.pre.cursor > 0
    /\ pop.pre.cursor < Len(pop.pre.data)
    /\ pop.ch /= pop.pre.data[pop.pre.cursor + 1]

(***************************************************************************)
(* apply_patches properties, under SpecEmit.  The k-th Print of `out` is   *)
(* the glyph write of the k-th patch of `batch`.                           *)
(***************************************************************************)
PrintAt == {j \in 1 .. Len(out) : out[j].cmd = "Print"}

\* position in `out` of the glyph write of patch k; 0 for k = 0
PrintIdx(k) ==
    IF k = 0 THEN 0
    ELSE CHOOSE j \in PrintAt : Cardinality({i \in PrintAt : i <= j}) = k

\* positions of the commands queued after the glyph of patch k-1 (or, for the
\* first patch, from the start) and before the glyph of patch k
Before(k) == {j \in 1 .. Len(out) : PrintIdx(k - 1) < j /\ j < PrintIdx(k)}

\* the patch emitted immediately before patch k was at (x-1, y)
AdjacentPrev(k) ==
    /\ k > 1
    /\ batch[k].y = batch[k - 1].y
    /\ batch[k].x = batch[k - 1].x + 1

OneGlyphPerPatch ==
    /\ Cardinality(PrintAt) = Len(batch)
    /\ \A k \in 1 .. Len(batch) : out[PrintIdx(k)].ch = batch[k].cell.ch

\* C3: a MoveTo(x, y) is queued before the glyph of every patch whose
\* predecessor in the batch was not at (x-1, y); the first patch of a batch has
\* no predecessor and is always positioned, also at (1, 0).
C3_MoveToUnlessAdjacent ==
    emitted =>
        /\ OneGlyphPerPatch
        /\ \A k \in 1 .. Len(batch) :
              ~AdjacentPrev(k) =>
                  \E j \in Before(k) :
                     /\ out[j].cmd = "MoveTo"
                     /\ out[j].x = batch[k].x
                     /\ out[j].y = batch[k].y

\* C4: for two consecutive patches p1, p2 with p2.y = p1.y and
\* p2.x = p1.x + 1, no MoveTo is queued between the glyph of p1 and the glyph
\* of p2.
C4_NoMoveBetweenAdjacent ==
    emitted =>
        /\ OneGlyphPerPatch
        /\ \A k \in 1 .. Len(batch) :
              AdjacentPrev(k) => \A j \in Before(k) : out[j].cmd /= "MoveTo"

\* a batch was emitted in which a patch follows its left neighbour with a
\* change of style, so that commands are queued between the two glyphs
C4_Witness ==
    /\ emitted
    /\ \E k \in 1 .. Len(batch) : AdjacentPrev(k) /\ Before(k) /= {}

(***************************************************************************)
(* diff properties, under SpecDiff: A is screen_buffer, B is               *)
(* prev_screen_buffer, and `patches` is A.diff(B) when the last operation  *)
(* was the diff.                                                           *)
(***************************************************************************)
\* linear index of the cell a patch addresses
LinearIndex(p, width) == p.y * width + p.x

\* `cells` with the cell at (x, y) overwritten by the patch's cell, for the
\* patches of ps from position k on
RECURSIVE Overwrite(_, _, _, _)
Overwrite(cells, ps, k, width) ==
    IF k > Len(ps)
    THEN cells
    ELSE Overwrite([cells EXCEPT ![LinearIndex(ps[k], width)] = ps[k].cell],
                   ps, k + 1, width)

\* C1: for grids A and B of equal width and height, overwriting in B the cell
\* at (x, y) with the patch's cell for every patch of A.diff(B) yields A, cell
\* for cell.
C1_DiffThenOverwriteGivesSelf ==
    gop.op = "diff" =>
        Overwrite(prev_screen_buffer.cells, patches, 1, prev_screen_buffer.width)
            = screen_buffer.cells

\* a diff was taken where B holds a written cell that A does not have, and A
\* differs from B in two cells or more
C1_Witness ==
    /\ gop.op = "diff"
    /\ Len(patches) >= 2
    /\ \E i \in DOMAIN prev_screen_buffer.cells :
          /\ prev_screen_buffer.cells[i] /= Cell_default
          /\ prev_screen_buffer.cells[i] /= screen_buffer.cells[i]

\* C2: A.diff(B) holds exactly one patch for each linear index i with
\* A[i] /= B[i] and none for an index with A[i] = B[i] (A.diff(A) is empty);
\* each patch carries A's cell and the position (i % width, i / width); the
\* patches are in strictly ascending linear index.
C2_DiffExactPatches ==
    gop.op = "diff" =>
        LET A == screen_buffer
            B == prev_screen_buffer
            w == A.width
        IN  /\ \A i \in DOMAIN A.cells :
                  Cardinality({k \in 1 .. Len(patches) :
                                  LinearIndex(patches[k], w) = i})
                      = IF A.cells[i] /= B.cells[i] THEN 1 ELSE 0
            /\ \A k \in 1 .. Len(patches) :
                  \E i \in DOMAIN A.cells :
                     /\ patches[k].cell = A.cells[i]
                     /\ patches[k].x = i % w
                     /\ patches[k].y = i \div w
            /\ \A k \in 1 .. Len(patches) - 1 :
                  LinearIndex(patches[k], w) < LinearIndex(patches[k + 1], w)
            /\ (A.cells = B.cells => patches = <<>>)

\* a diff returned two patches, the second in a lower row and further left,
\* the first differing from B's cell in its colour only
C2_Witness ==
    /\ gop.op = "diff"
    /\ Len(patches) = 2
    /\ patches[1].y < patches[2].y
    /\ patches[1].x > patches[2].x
    /\ \E i \in DOMAIN prev_screen_buffer.cells :
          /\ prev_screen_buffer.cells[i].ch = screen_buffer.cells[i].ch
          /\ prev_screen_buffer.cells[i] /= screen_buffer.cells[i]

(***************************************************************************)
(* put_cell and put_cells properties, under SpecPut.                       *)
(***************************************************************************)

\* C9: for (x, y) with x >= width or y >= height, put_cell leaves every cell
\* unchanged; a cell is written only when x < width and y < height.
C9_PutCellOutOfBoundsNoOp ==
    (gop.op = "put_cell"
        /\ (gop.x >= screen_buffer.width \/ gop.y >= screen_buffer.height)) =>
        screen_buffer.cells = gop.pre

\* C10: put_cells of a run starting at (x, y) changes cells of row y only:
\* characters that would fall at columns >= width are dropped, no cell of row
\* y+1 or of another row changes.
C10_PutCellsStaysInRow ==
    gop.op = "put_cells" =>
        \A i \in DOMAIN screen_buffer.cells :
           screen_buffer.cells[i] /= gop.pre[i] =>
               i \div screen_buffer.width = gop.y

(***************************************************************************)
(* parse_prompt on its own: a line of the Prompt, parsed once.             *)
(***************************************************************************)
ParseInit ==
    /\ \E d \in ParseInputs : prompt = [data |-> d, cursor |-> Len(d)]
    /\ prompt_panicked = FALSE
    /\ pop = NoPop
    /\ screen_buffer = TerminalBuffer_new(1, 1)
    /\ prev_screen_buffer = TerminalBuffer_new(1, 1)
    /\ patches = <<>>
    /\ gop = NoGop
    /\ nput = 0
    /\ batch = <<>>
    /\ out = <<>>
    /\ emitted = FALSE
    /\ parsed = NotParsed
    /\ client = Client_default
    /\ main_pc = "off"
    /\ term = Terminal_new(1, 1)
    /\ kev = NoKey
    /\ net = <<>>
    /\ chan = <<>>
    /\ clients = {}
    /\ server_pc = "off"
    /\ conn = NoConn
    /\ sop = NoSop
    /\ hop = NoHop

ParseNext == ParsePrompt

SpecParse == ParseInit /\ [][ParseNext]_vars

HasSpace(s) == \E i \in 1 .. Len(s) : s[i] = " "

\* C17: parse_prompt(p) returns nothing when p does not start with '/';
\* otherwise (name, argument) with name the characters after the '/' up to but
\* excluding the first space and argument everything after that space (later
\* spaces kept), or the empty sequence when p has no space.
C17_ParsePrompt ==
    parsed.done =>
        LET p == prompt.data
            r == parsed.result
        IN  /\ r.some <=> (Len(p) > 0 /\ p[1] = "/")
            /\ r.some =>
                  /\ ~HasSpace(r.command)
                  /\ IF HasSpace(p)
                     THEN p = <<"/">> \o r.command \o <<" ">> \o r.argument
                     ELSE p = <<"/">> \o r.command /\ r.argument = <<>>

\* a line with two spaces after the command name was parsed
C17_Witness ==
    /\ parsed.done
    /\ parsed.result.some
    /\ Len(parsed.result.command) > 0
    /\ HasSpace(parsed.result.argument)

(***************************************************************************)
(* The client: main from the first iteration of the frame loop on, on a    *)
(* terminal of MaxW x MaxH, with a user who types the lines of Lines and   *)
(* a server that may or may not accept the connection and the writes.      *)
(***************************************************************************)
Lines ==
    {<<"/">> \o help_name \o <<" ">> \o COMMANDS[i].name : i \in 1 .. Len(COMMANDS)}
        \cup {<<"/">> \o connect_name \o <<" ", "h">>,
              <<"/">> \o disconnect_name,
              <<"/">> \o quit_name,
              <<"/", "x">>,
              <<"h", "i">>}

KeyChars == UNION {{l[i] : i \in 1 .. Len(l)} : l \in Lines}

IsPrefix(s, t) == Len(s) <= Len(t) /\ SubSeq(t, 1, Len(s)) = s

Typable(s) == \E l \in Lines : IsPrefix(s, l)

Chunks == {<<"y", "o">>}

Init ==
    /\ prompt = Prompt_default
    /\ prompt_panicked = FALSE
    /\ pop = NoPop
    /\ screen_buffer = TerminalBuffer_new(MaxW, MaxH)
    /\ prev_screen_buffer = TerminalBuffer_new(MaxW, MaxH)
    /\ patches = <<>>
    /\ gop = NoGop
    /\ nput = 0
    /\ batch = <<>>
    /\ out = <<>>
    /\ emitted = FALSE
    /\ parsed = NotParsed
    /\ client = Client_default
    /\ main_pc = "poll"
    /\ term = Terminal_run(Terminal_new(MaxW, MaxH),
                           TerminalBuffer_flush(TerminalBuffer_new(MaxW, MaxH)),
                           1, MaxW, MaxH)
    /\ kev = NoKey
    /\ net = <<>>
    /\ chan = <<>>
    /\ clients = {}
    /\ server_pc = "off"
    /\ conn = NoConn
    /\ sop = NoSop
    /\ hop = NoHop

\* The first half of an iteration: poll says there is no event, or one
\* event is read and handled.
PollStep ==
    \/ NoEvent
    \/ \E ch \in KeyChars :
          Typable(Prompt_insert(prompt, ch).data) /\ KeyChar(ch)
    \/ KeyCtrlC
    \/ \E connected \in BOOLEAN, written \in BOOLEAN :
          /\ Len(client.chat) < MaxChat
          /\ prompt.data \in Lines
          /\ KeyEnter(connected, written)
    \/ KeyBackspace
    \/ Len(prompt.data) <= MaxLen /\ KeyLeft
    \/ Len(prompt.data) <= MaxLen /\ KeyRight
    \/ KeyEsc

Next ==
    \/ PollStep
    \/ RenderFrame
    \/ \E chunk \in Chunks : PeerSend(chunk)

Spec == Init /\ [][Next]_vars

\* The same client with a user who only connects and quits, for what the
\* loop does in the long run.  main is a running thread: poll returns at once
\* (Duration::ZERO) and the frame is drawn after it, so neither half of an
\* iteration waits for ever.
LiveLines ==
    {<<"/">> \o connect_name \o <<" ", "h">>, <<"/">> \o quit_name}

LivePollStep ==
    \/ NoEvent
    \/ \E ch \in KeyChars :
          /\ \E l \in LiveLines : IsPrefix(Prompt_insert(prompt, ch).data, l)
          /\ KeyChar(ch)
    \/ KeyCtrlC
    \/ \E connected \in BOOLEAN, written \in BOOLEAN :
          /\ Len(client.chat) < MaxChat
          /\ prompt.data \in LiveLines
          /\ KeyEnter(connected, written)
    \/ KeyEsc

LiveNext ==
    \/ LivePollStep
    \/ RenderFrame
    \/ \E chunk \in Chunks : PeerSend(chunk)

\* the step RenderFrame as main_pc shows it
FrameDrawn == main_pc = "render" /\ main_pc' \in {"poll", "Ok"}

SpecLive ==
    Init /\ [][LiveNext]_vars /\ WF_vars(LivePollStep) /\ WF_main_pc(FrameDrawn)

(***************************************************************************)
(* Properties of the Enter key, under Spec.  kev holds the Prompt and the  *)
(* client as they were when the key was read.                              *)
(***************************************************************************)
StartsWithSlash(s) == Len(s) > 0 /\ s[1] = "/"

\* the entries the key event of this iteration appended to the Chat Log
Appended ==
    SubSeq(client.chat, Len(kev.client.chat) + 1, Len(client.chat))

\* t occurs in s
Contains(s, t) ==
    \E i \in 0 .. Len(s) - Len(t) : SubSeq(s, i + 1, i + Len(t)) = t

\* C11: Enter on a line that does not start with '/' while disconnected
\* appends exactly one Chat Log entry, info-coloured and telling how to
\* connect, and leaves the Prompt's data and cursor unchanged.
C11_OfflineMessageOneInfoEntry ==
    (/\ kev.key = "Enter"
     /\ kev.client.stream = "None"
     /\ ~StartsWithSlash(kev.prompt.data)) =>
        /\ Len(Appended) = 1
        /\ Appended[1].color = "Blue"
        /\ Contains(Appended[1].message, COMMANDS[1].signature)
        /\ prompt = kev.prompt

HelpLine(n) == <<"/">> \o help_name \o <<" ">> \o n

\* C12: for every registered command n, Enter on `/help n` dispatches the help
\* handler with argument n and appends exactly one Chat Log entry,
\* info-coloured and containing n's signature and description, whether the
\* client is connected or not.
C12_HelpOneInfoEntry ==
    \A i \in 1 .. Len(COMMANDS) :
        (kev.key = "Enter" /\ kev.prompt.data = HelpLine(COMMANDS[i].name)) =>
            /\ parse_prompt(kev.prompt.data).command = help_name
            /\ parse_prompt(kev.prompt.data).argument = COMMANDS[i].name
            /\ find_command(help_name).command.run = "help_command"
            /\ Len(Appended) = 1
            /\ Appended[1].color = "Blue"
            /\ Contains(Appended[1].message, COMMANDS[i].signature)
            /\ Contains(Appended[1].message, COMMANDS[i].description)

\* C13: Enter on a line that starts with '/', a registered command or not,
\* appends no White Chat Log entry that is the line's own text, whether the
\* client is connected or not.
C13_CommandLineNotEchoed ==
    (kev.key = "Enter" /\ StartsWithSlash(kev.prompt.data)) =>
        \A j \in 1 .. Len(Appended) :
            ~(Appended[j].message = kev.prompt.data /\ Appended[j].color = "White")

\* Enter ran /connect on a disconnected client and the connect failed
ConnectFailed ==
    /\ kev.key = "Enter"
    /\ parse_prompt(kev.prompt.data).some
    /\ parse_prompt(kev.prompt.data).command = connect_name
    /\ kev.client.stream = "None"
    /\ client.stream = "None"

\* Enter sent a chat message on a connected client and the write failed
WriteFailed ==
    /\ kev.key = "Enter"
    /\ ~StartsWithSlash(kev.prompt.data)
    /\ kev.client.stream = "Some"
    /\ kev.result = "Err"

\* the failed connect alone leaves the loop running, with a Red entry
ConnectFailureRecovered ==
    ConnectFailed =>
        /\ main_pc = "render"
        /\ \E j \in 1 .. Len(Appended) : Appended[j].color = "Red"

\* C14: a failed connect in /connect and a failed write of a chat message
\* never end the frame loop: main goes on to draw the frame, and the failure
\* is a coloured (Red) entry of the Chat Log.
C14_ConnectionFailureNotFatal ==
    /\ main_pc /= "Err"
    /\ (ConnectFailed \/ WriteFailed) =>
          /\ main_pc = "render"
          /\ \E j \in 1 .. Len(Appended) : Appended[j].color = "Red"

(***************************************************************************)
(* Properties of the frame loop, under SpecLive.                           *)
(***************************************************************************)
InChatLog(message) ==
    \E j \in 1 .. Len(client.chat) : client.chat[j].message = message

\* C15: while the client is connected the loop polls the connection every
\* tick, so a chunk that the peer sent and that waits in the socket is
\* eventually an entry of the Chat Log (unless the client disconnects or main
\* ends first).
C15_ReceivedChunkReachesChatLog ==
    \A chunk \in Chunks :
        (client.stream = "Some" /\ net /= <<>> /\ Head(net) = chunk)
            ~> (\/ InChatLog(chunk)
                \/ client.stream = "None"
                \/ main_pc \in {"Ok", "Err"})

\* the quit flag, once set, stays set
QuitNeverReset == [][client.quit => client'.quit]_vars

\* once the quit flag is set main is never at the poll again, and nothing
\* changes the Prompt or the client
NoInputAfterQuit ==
    /\ [](client.quit => main_pc /= "poll")
    /\ [][client.quit => (prompt' = prompt /\ client' = client)]_vars

\* the only step main takes with the quit flag set is the rest of the
\* iteration that set it: the frame is drawn from the Prompt and the Chat Log
\* as they are, the terminal gets its patches and the cursor, the buffers are
\* swapped, and main returns Ok
QuitIterationCompletes ==
    [][(client.quit /\ main_pc' /= main_pc) =>
          /\ main_pc = "render"
          /\ main_pc' = "Ok"
          /\ prev_screen_buffer' =
                 render_frame(screen_buffer, client, prompt,
                              screen_buffer.width, screen_buffer.height)
          /\ patches' = TerminalBuffer_diff(prev_screen_buffer', prev_screen_buffer)
          /\ screen_buffer' = prev_screen_buffer
          /\ term' = Terminal_run(
                         term,
                         apply_patches(patches')
                             \o Prompt_sync_cursor_with_terminal(
                                    prompt, 0, screen_buffer.height - 1,
                                    screen_buffer.width),
                         1, screen_buffer.width, screen_buffer.height)]_vars

FrameChars == {"a", "b"}

FrameInit ==
    /\ prompt = Prompt_default
    /\ prompt_panicked = FALSE
    /\ pop = NoPop
    /\ \E w \in 1 .. MaxCols, h \in 1 .. MaxRows :
          /\ screen_buffer = TerminalBuffer_new(w, h)
          /\ prev_screen_buffer = TerminalBuffer_new(w, h)
          /\ term = Terminal_run(Terminal_new(w, h),
                                 TerminalBuffer_flush(TerminalBuffer_new(w, h)),
                                 1, w, h)
    /\ patches = <<>>
    /\ gop = NoGop
    /\ nput = 0
    /\ batch = <<>>
    /\ out = <<>>
    /\ emitted = FALSE
    /\ parsed = NotParsed
    /\ client = Client_default
    /\ main_pc = "poll"
    /\ kev = NoKey
    /\ net = <<>>
    /\ chan = <<>>
    /\ clients = {}
    /\ server_pc = "off"
    /\ conn = NoConn
    /\ sop = NoSop
    /\ hop = NoHop

FrameNext ==
    \/ NoEvent
    \/ \E ch \in FrameChars : Len(prompt.data) < MaxLen /\ KeyChar(ch)
    \/ KeyCtrlC
    \/ \E connected \in BOOLEAN, written \in BOOLEAN :
          Len(client.chat) < MaxChat /\ KeyEnter(connected, written)
    \/ KeyBackspace
    \/ KeyLeft
    \/ KeyRight
    \/ KeyEsc
    \/ RenderFrame

SpecFrame == FrameInit /\ [][FrameNext]_vars

\* C18: with the terminal a grid of cells and a cursor that advances one
\* column per printed glyph, whenever an iteration of the frame loop has
\* ended (and when the next diff is taken) the cells on the terminal are the
\* cells of the grid drawn in that iteration, which the swap has made
\* prev_screen_buffer; for every terminal size from 1 x 1 on, height 1
\* included, and every sequence of key events.
C18_TerminalShowsGrid ==
    main_pc \in {"poll", "Ok"} => term.cells = prev_screen_buffer.cells

\* the same on terminals of two or more rows
TerminalShowsGridFromTwoRows ==
    (main_pc \in {"poll", "Ok"} /\ prev_screen_buffer.height >= 2) =>
        term.cells = prev_screen_buffer.cells

(***************************************************************************)
(* The server: main has bound the listener and spawned the server thread;  *)
(* up to MaxClients connections are accepted, each sending one-byte        *)
(* messages.                                                               *)
(***************************************************************************)
ServerReads == {<<97>>}

ServerInit ==
    /\ prompt = Prompt_default
    /\ prompt_panicked = FALSE
    /\ pop = NoPop
    /\ screen_buffer = TerminalBuffer_new(1, 1)
    /\ prev_screen_buffer = TerminalBuffer_new(1, 1)
    /\ patches = <<>>
    /\ gop = NoGop
    /\ nput = 0
    /\ batch = <<>>
    /\ out = <<>>
    /\ emitted = FALSE
    /\ parsed = NotParsed
    /\ client = Client_default
    /\ main_pc = "off"
    /\ term = Terminal_new(1, 1)
    /\ kev = NoKey
    /\ net = <<>>
    /\ chan = <<>>
    /\ clients = {}
    /\ server_pc = "recv"
    /\ conn = NoConn
    /\ sop = NoSop
    /\ hop = NoHop

ServerNext ==
    \/ \E a \in Addrs : Accept(a)
    \/ \E a \in Addrs : PeerClose(a)
    \/ \E a \in Addrs, ok \in BOOLEAN : ClientStart(a, ok)
    \/ \E a \in Addrs, data \in ServerReads : ClientRead(a, data)
    \/ \E a \in Addrs : ClientReadZero(a)
    \/ \E a \in Addrs : ClientReadErr(a)
    \/ \E ok \in BOOLEAN : ServerClientConnected(ok)
    \/ \E ok \in BOOLEAN : ServerClientDisconnected(ok)
    \/ \E wrote \in SUBSET Addrs, failed \in SUBSET Addrs :
          ServerNewMessage(wrote, failed)

SpecServer == ServerInit /\ [][ServerNext]_vars

\* C19: when the server thread processes a NewMessage from author a, the
\* message is written to the stream of every address that is in the map and
\* differs from a, and to no other stream: not to the author, not to an
\* address whose ClientDisconnected was processed before.
C19_BroadcastToAllOthers ==
    sop.kind = "NewMessage" =>
        sop.wrote = {addr \in sop.registry : addr /= sop.address}

\* what holds of every broadcast: no stream outside the map and not the
\* author's; and all the others when no write failed
BroadcastOnlyToOthers ==
    sop.kind = "NewMessage" =>
        /\ sop.wrote \subseteq {addr \in sop.registry : addr /= sop.address}
        /\ sop.result = "Ok" =>
              sop.wrote = {addr \in sop.registry : addr /= sop.address}

(***************************************************************************)
(* One connection whose peer sends up to MaxRead bytes at a time, control  *)
(* bytes and bytes above 127 among them.                                   *)
(***************************************************************************)
HandlerBytes == {10, 97, 98, 200}

HandlerReads == UNION {[1 .. n -> HandlerBytes] : n \in 1 .. MaxRead}

HandlerNext ==
    \/ Accept(1)
    \/ PeerClose(1)
    \/ \E ok \in BOOLEAN : ClientStart(1, ok)
    \/ \E data \in HandlerReads : ClientRead(1, data)
    \/ ClientReadZero(1)
    \/ ClientReadErr(1)
    \/ \E ok \in BOOLEAN : ServerClientConnected(ok)
    \/ \E ok \in BOOLEAN : ServerClientDisconnected(ok)
    \/ ServerNewMessage({}, {})

SpecHandler == ServerInit /\ [][HandlerNext]_vars

\* the bytes of data that are 32 or more, in order
Printable(data) == SelectSeq(data, LAMBDA c : c >= 32)

\* C20: the NewMessage a `client` thread sends for a read of n > 0 bytes
\* holds exactly those of the n bytes that are 32 or more, in order; bytes
\* that an earlier, longer read left in the 64-byte buffer are not in it.
C20_MessageIsWhatWasRead ==
    hop.n > 0 => hop.mesg = Printable(hop.data)

(***************************************************************************)
(* The server in the long run, with two connections.  The server thread    *)
(* blocks in recv only while the channel is empty, so a Message that waits *)
(* in the channel is received unless the thread has returned.              *)
(***************************************************************************)
LiveAddrs == {1, 2}

\* one turn of the loop of server(): recv and the arm of the Message
ServerStep ==
    \/ \E ok \in BOOLEAN : ServerClientConnected(ok)
    \/ \E ok \in BOOLEAN : ServerClientDisconnected(ok)
    \/ \E wrote \in SUBSET LiveAddrs, failed \in SUBSET LiveAddrs :
          ServerNewMessage(wrote, failed)

ServerLiveNext ==
    \/ \E a \in LiveAddrs : Accept(a)
    \/ \E a \in LiveAddrs : PeerClose(a)
    \/ \E a \in LiveAddrs, ok \in BOOLEAN : ClientStart(a, ok)
    \/ \E a \in LiveAddrs, data \in ServerReads : ClientRead(a, data)
    \/ \E a \in LiveAddrs : ClientReadZero(a)
    \/ \E a \in LiveAddrs : ClientReadErr(a)
    \/ ServerStep

SpecServerLive == ServerInit /\ [][ServerLiveNext]_vars /\ WF_vars(ServerStep)

\* a NewMessage of author a waits in the channel
InChan(a) ==
    \E i \in 1 .. Len(chan) :
        chan[i].kind = "NewMessage" /\ chan[i].address = a

\* the server thread has just run the NewMessage arm for author a
Broadcast(a) == sop.kind = "NewMessage" /\ sop.address = a

\* C21: a write to a client's stream that fails, in the welcome, in the
\* disconnect notice or in the broadcast, does not stop the server thread: it
\* stays in its recv loop, and every NewMessage that a client thread puts in
\* the channel is eventually broadcast.
C21_FailedWriteDoesNotStopServer ==
    /\ [](server_pc = "recv")
    /\ \A a \in LiveAddrs : InChan(a) ~> Broadcast(a)

\* what does hold: a waiting NewMessage is broadcast unless the server thread
\* has returned
BroadcastUnlessStopped ==
    \A a \in LiveAddrs : InChan(a) ~> (Broadcast(a) \/ server_pc = "Err")

====
